---- MODULE Spec2Model ----
(***************************************************************************)
(* Model of InvenTree/plugin/models.py (PluginConfig, PluginSetting) and   *)
(* InvenTree/part/urls.py (the part app's route table).                    *)
(***************************************************************************)
EXTENDS Integers, Sequences, FiniteSets, TLC

VARIABLES
    registry,   \* the process-wide plugin registry: plugins, mixins_settings
    configs,    \* stored PluginConfig rows: pk -> [key, active]
    nextPk,     \* next primary key of the PluginConfig table
    settings,   \* stored PluginSetting rows: id -> [plugin, key]
    nextId,     \* next primary key of the PluginSetting table
    inst,       \* the PluginConfig instance held in memory (or NoInst)
    hist,       \* the saves made so far on inst
    last,       \* the last operation: its inputs, calls, exception, result
    path,       \* the request path handed to the URL resolver
    resolved,   \* the view the resolver dispatched to
    defcall     \* the last get_setting_definition call: kwargs in, kwargs out

vars == <<registry, configs, nextPk, settings, nextId, inst, hist, last,
          path, resolved, defcall>>

----------------------------------------------------------------------------
(* Bounds *)

MaxPk == 2          \* PluginConfig rows ever inserted
MaxId == 2          \* PluginSetting rows ever inserted
MaxPieces == 3      \* pieces a request path is put together from

Keys == {"k1", "k2"}            \* plugin keys (slugs)
SettingKeys == {"API_KEY", "URL"} \* setting keys

----------------------------------------------------------------------------
(* Python values *)

PyNone == [t |-> "NoneType"]
PyStr(s) == [t |-> "str", v |-> s]
PyInt(n) == [t |-> "int", v |-> n]
PyDict(f) == [t |-> "dict", v |-> f]
EmptyDict == PyDict([k \in {} |-> PyNone])

Digits == <<"0", "1", "2", "3", "4", "5", "6", "7", "8", "9">>

\* str(x)
Str(x) ==
    CASE x.t = "str" -> x
      [] x.t = "NoneType" -> PyStr("None")
      [] x.t = "int" -> PyStr(Digits[x.v + 1])

\* getattr(obj, name, None) on an object given by its attribute dictionary
GetAttr(obj, name) ==
    IF name \in DOMAIN obj.attrs THEN obj.attrs[name] ELSE PyNone

\* d.get(k, default) on a mapping
DictGet(d, k, default) == IF k \in DOMAIN d THEN d[k] ELSE default

----------------------------------------------------------------------------
(* The plugin registry (the collaborator this code calls) *)

MetaNames == {"slug", "human_name", "description", "author", "pub_date",
              "version", "website", "license", "package_path", "settings_url"}

MixinRegA == PyDict([m \in {"settings", "urls"} |-> PyStr(m)])

\* A plugin that declares every metadata attribute and has mixins
FullPlugin(k) ==
    [t |-> "plugin",
     attrs |-> [n \in MetaNames \cup {"_mixinreg"} |->
                  CASE n = "slug" -> PyStr(k)
                    [] n = "version" -> PyInt(2)
                    [] n = "website" -> PyNone
                    [] n = "_mixinreg" -> MixinRegA
                    [] OTHER -> PyStr("x")]]

\* A plugin that declares only a slug: no other metadata, no _mixinreg
BarePlugin(k) ==
    [t |-> "plugin", attrs |-> [n \in {"slug"} |-> PyStr(k)]]

SettingsA == PyDict([s \in {"API_KEY"} |-> PyStr("API Key")])
SettingsB == PyDict([s \in {"API_KEY", "URL"} |-> PyStr("x")])

Registries ==
    { [plugins |-> [k \in {"k1", "k2"} |->
                      IF k = "k1" THEN FullPlugin(k) ELSE BarePlugin(k)],
       mixins_settings |-> [k \in {"k1"} |-> SettingsA]],
      [plugins |-> [k \in {"k2"} |-> FullPlugin(k)],
       mixins_settings |-> [k \in {"k2"} |-> SettingsB]] }

----------------------------------------------------------------------------
(* PluginConfig *)

NoInst == [t |-> "none"]
NoPk == 0

get_plugin_meta_unguarded(plugin, name) ==
    IF plugin # PyNone THEN Str(GetAttr(plugin, name)) ELSE Str(PyNone)

\* get_plugin_meta(name), the closure of PluginConfig.__init__
get_plugin_meta(plugin, name) ==
    IF plugin # PyNone THEN Str(GetAttr(plugin, name)) ELSE PyNone

\* PluginConfig.__init__: remembers active, looks the plugin up, builds meta
PluginConfigInit(pk, key, active, reg) ==
    LET plugin == DictGet(reg.plugins, key, PyNone) IN
    [t |-> "PluginConfig",
     pk |-> pk,
     key |-> key,
     active |-> active,
     org_active |-> active,
     plugin |-> plugin,
     meta |-> [n \in MetaNames |-> get_plugin_meta(plugin, n)]]

MixinsNone(i) ==
    IF i.plugin = PyNone THEN PyNone
    ELSE IF "_mixinreg" \in DOMAIN i.plugin.attrs
         THEN i.plugin.attrs["_mixinreg"] ELSE PyNone

\* PluginConfig.mixins: self.plugin._mixinreg, {} on AttributeError
mixins(i) ==
    IF i.plugin = PyNone THEN EmptyDict
    ELSE IF "_mixinreg" \in DOMAIN i.plugin.attrs
         THEN i.plugin.attrs["_mixinreg"] ELSE EmptyDict

\* key = CharField(unique=True): another stored row already holds the key
KeyConflictNever(db, pk, key) == FALSE

KeyConflict(db, pk, key) ==
    \E q \in DOMAIN db : q # pk /\ db[q].key = key

Row(i) == [key |-> i.key, active |-> i.active]

Put(db, pk, row) == [q \in DOMAIN db \cup {pk} |-> IF q = pk THEN row ELSE db[q]]

\* super().save(force_insert, force_update): the ORM's insert-or-update
SuperSave(db, npk, i, force_insert, force_update) ==
    LET fail(e) == [raised |-> e, configs |-> db, nextPk |-> npk, pk |-> i.pk]
        pk_set == i.pk # NoPk
        tryUpdate == pk_set /\ ~force_insert
        updated == tryUpdate /\ i.pk \in DOMAIN db
        newPk == IF pk_set THEN i.pk ELSE npk
    IN  IF force_insert /\ force_update THEN fail("ValueError")
        ELSE IF ~pk_set /\ force_update THEN fail("ValueError")
        ELSE IF updated THEN
            IF KeyConflict(db, i.pk, i.key) THEN fail("IntegrityError")
            ELSE [raised |-> "none", configs |-> Put(db, i.pk, Row(i)),
                  nextPk |-> npk, pk |-> i.pk]
        ELSE IF tryUpdate /\ force_update THEN fail("DatabaseError")
        ELSE IF newPk \in DOMAIN db \/ KeyConflict(db, newPk, i.key)
             THEN fail("IntegrityError")
        ELSE [raised |-> "none", configs |-> Put(db, newPk, Row(i)),
              nextPk |-> IF pk_set THEN npk ELSE npk + 1, pk |-> newPk]

ActiveChangedUpOnly(i) == i.active = TRUE /\ i.org_active = FALSE

\* the condition of save(): active differs from the value at construction
ActiveChanged(i) ==
    \/ (i.active = FALSE /\ i.org_active = TRUE)
    \/ (i.active = TRUE /\ i.org_active = FALSE)

PluginConfigSaveIgnoreFlag(db, npk, i, force_insert, force_update, no_reload) ==
    LET r == SuperSave(db, npk, i, force_insert, force_update) IN
    [raised |-> r.raised, configs |-> r.configs, nextPk |-> r.nextPk,
     inst |-> [i EXCEPT !.pk = r.pk],
     calls |-> <<"super.save">> \o
               (IF r.raised = "none" /\ ActiveChanged(i)
                THEN <<"reload_plugins">> ELSE <<>>)]

\* PluginConfig.save: persist, then reload the registry if active changed
PluginConfigSave(db, npk, i, force_insert, force_update, no_reload) ==
    LET r == SuperSave(db, npk, i, force_insert, force_update) IN
    [raised |-> r.raised, configs |-> r.configs, nextPk |-> r.nextPk,
     inst |-> [i EXCEPT !.pk = r.pk],
     calls |-> <<"super.save">> \o
               (IF r.raised = "none" /\ ~no_reload /\ ActiveChanged(i)
                THEN <<"reload_plugins">> ELSE <<>>)]

----------------------------------------------------------------------------
(* Stored PluginSetting rows *)

CascadeNone(st, pk) == st

\* plugin = ForeignKey(PluginConfig, on_delete=CASCADE): rows deleted with pk
Cascade(st, pk) ==
    [s \in {x \in DOMAIN st : st[x].plugin # pk} |-> st[s]]

UniqueTogetherKeyOnly(st, id, plugin, key) ==
    \E s \in DOMAIN st : s # id /\ st[s].key = key

\* unique_together = [('plugin', 'key')]: another row holds the same pair
UniqueTogetherConflict(st, id, plugin, key) ==
    \E s \in DOMAIN st : s # id /\ st[s].plugin = plugin /\ st[s].key = key

\* writing a PluginSetting row: the constraints of the table
SettingWrite(st, db, id, plugin, key) ==
    IF plugin = NoPk \/ plugin \notin DOMAIN db
       \/ UniqueTogetherConflict(st, id, plugin, key)
    THEN [raised |-> "IntegrityError", settings |-> st]
    ELSE [raised |-> "none",
          settings |-> [s \in DOMAIN st \cup {id} |->
                          IF s = id
                          THEN [plugin |-> plugin, key |-> key]
                          ELSE st[s]]]

----------------------------------------------------------------------------
(* The record of the last operation *)

NoOp == [op |-> "none", raised |-> "none", calls |-> <<>>,
         no_reload |-> FALSE, active |-> FALSE, org |-> FALSE,
         first |-> FALSE, prev |-> {}, changed |-> FALSE, ret |-> PyNone,
         arg |-> <<>>]

NoHist == [first |-> TRUE, prev |-> {}, loaded |-> FALSE]

Count(sq, x) == Cardinality({n \in DOMAIN sq : sq[n] = x})

----------------------------------------------------------------------------
(* Operations on a PluginConfig instance *)

UrlIdle == /\ path = <<>> /\ resolved = "none"
DefIdle == defcall = NoOp

Init ==
    /\ registry \in Registries
    /\ configs = [q \in {} |-> Row([key |-> "k1", active |-> FALSE])]
    /\ nextPk = 1
    /\ settings = [s \in {} |-> [plugin |-> 1, key |-> "URL"]]
    /\ nextId = 1
    /\ inst = NoInst
    /\ hist = NoHist
    /\ last = NoOp
    /\ UrlIdle
    /\ DefIdle

\* PluginConfig(key=k, active=a)
New(k, a) ==
    /\ inst' = PluginConfigInit(NoPk, k, a, registry)
    /\ hist' = [NoHist EXCEPT !.loaded = a]
    /\ last' = [NoOp EXCEPT !.op = "init"]
    /\ UNCHANGED <<registry, configs, nextPk, settings, nextId,
                   path, resolved, defcall>>

\* PluginConfig.objects.get(pk=pk)
Load(pk) ==
    /\ pk \in DOMAIN configs
    /\ inst' = PluginConfigInit(pk, configs[pk].key, configs[pk].active, registry)
    /\ hist' = [NoHist EXCEPT !.loaded = configs[pk].active]
    /\ last' = [NoOp EXCEPT !.op = "init"]
    /\ UNCHANGED <<registry, configs, nextPk, settings, nextId,
                   path, resolved, defcall>>

\* instance.active = b
SetActive(b) ==
    /\ inst # NoInst
    /\ inst.active # b
    /\ inst' = [inst EXCEPT !.active = b]
    /\ last' = [NoOp EXCEPT !.op = "set"]
    /\ UNCHANGED <<registry, configs, nextPk, settings, nextId, hist,
                   path, resolved, defcall>>

\* instance.key = k
SetKey(k) ==
    /\ inst # NoInst
    /\ inst.key # k
    /\ inst' = [inst EXCEPT !.key = k]
    /\ last' = [NoOp EXCEPT !.op = "set"]
    /\ UNCHANGED <<registry, configs, nextPk, settings, nextId, hist,
                   path, resolved, defcall>>

\* instance.save(force_insert, force_update, no_reload=no_reload)
Save(force_insert, force_update, no_reload) ==
    /\ inst # NoInst
    /\ LET r == PluginConfigSave(configs, nextPk, inst,
                                 force_insert, force_update, no_reload)
       IN /\ r.nextPk <= MaxPk + 1
          /\ configs' = r.configs
          /\ nextPk' = r.nextPk
          /\ inst' = r.inst
          /\ hist' = [first |-> hist.first /\ no_reload,
                      prev |-> IF r.raised = "none" THEN {inst.active}
                               ELSE hist.prev,
                      loaded |-> hist.loaded]
          /\ last' = [op |-> "save", raised |-> r.raised, calls |-> r.calls,
                      no_reload |-> no_reload, active |-> inst.active,
                      org |-> hist.loaded, first |-> hist.first,
                      prev |-> hist.prev, changed |-> r.configs # configs,
                      ret |-> PyNone,
                      arg |-> <<force_insert, force_update>>]
    /\ UNCHANGED <<registry, settings, nextId, path, resolved, defcall>>

\* PluginConfig.objects.filter(pk=pk).delete()
DeleteConfig(pk) ==
    /\ pk \in DOMAIN configs
    /\ configs' = [q \in DOMAIN configs \ {pk} |-> configs[q]]
    /\ settings' = Cascade(settings, pk)
    /\ last' = [NoOp EXCEPT !.op = "delete", !.arg = <<pk>>,
                            !.changed = Cascade(settings, pk) # settings]
    /\ UNCHANGED <<registry, nextPk, nextId, inst, hist, path, resolved, defcall>>

\* instance.mixins()
Mixins ==
    /\ inst # NoInst
    /\ last' = [NoOp EXCEPT !.op = "mixins", !.ret = mixins(inst)]
    /\ UNCHANGED <<registry, configs, nextPk, settings, nextId, inst, hist,
                   path, resolved, defcall>>

Next ==
    \/ \E k \in Keys, a \in BOOLEAN : New(k, a)
    \/ \E pk \in 1..MaxPk : Load(pk)
    \/ \E b \in BOOLEAN : SetActive(b)
    \/ \E k \in Keys : SetKey(k)
    \/ \E fi \in BOOLEAN, fu \in BOOLEAN, nr \in BOOLEAN : Save(fi, fu, nr)
    \/ \E pk \in 1..MaxPk : DeleteConfig(pk)
    \/ Mixins

Spec == Init /\ [][Next]_vars

----------------------------------------------------------------------------
(* Operations on the stored rows *)

SaveRecord(r, i, loaded, no_reload, force_insert, force_update) ==
    [op |-> "save", raised |-> r.raised, calls |-> r.calls,
     no_reload |-> no_reload, active |-> i.active, org |-> loaded,
     first |-> TRUE, prev |-> {}, changed |-> r.configs # configs,
     ret |-> PyNone, arg |-> <<force_insert, force_update>>]

\* PluginConfig.objects.create(key=k, active=a)
CreateConfig(k, a) ==
    /\ inst = NoInst
    /\ LET i == PluginConfigInit(NoPk, k, a, registry)
           r == PluginConfigSave(configs, nextPk, i, TRUE, FALSE, FALSE)
       IN /\ r.nextPk <= MaxPk + 1
          /\ configs' = r.configs
          /\ nextPk' = r.nextPk
          /\ last' = SaveRecord(r, i, a, FALSE, TRUE, FALSE)
    /\ UNCHANGED <<registry, settings, nextId, inst, hist, path, resolved, defcall>>

\* c = PluginConfig.objects.get(pk=pk); c.key = k; c.active = a; c.save()
UpdateConfig(pk, k, a) ==
    /\ inst = NoInst
    /\ pk \in DOMAIN configs
    /\ LET c == PluginConfigInit(pk, configs[pk].key, configs[pk].active, registry)
           i == [c EXCEPT !.key = k, !.active = a]
           r == PluginConfigSave(configs, nextPk, i, FALSE, FALSE, FALSE)
       IN /\ configs' = r.configs
          /\ nextPk' = r.nextPk
          /\ last' = SaveRecord(r, i, configs[pk].active, FALSE, FALSE, FALSE)
    /\ UNCHANGED <<registry, settings, nextId, inst, hist, path, resolved, defcall>>

\* PluginSetting(plugin=p, key=k).save()
InsertSetting(p, k) ==
    /\ nextId <= MaxId
    /\ LET r == SettingWrite(settings, configs, nextId, p, k)
       IN /\ settings' = r.settings
          /\ nextId' = IF r.raised = "none" THEN nextId + 1 ELSE nextId
          /\ last' = [NoOp EXCEPT !.op = "setting_insert", !.raised = r.raised,
                                  !.changed = r.settings # settings,
                                  !.arg = <<p, k>>]
    /\ UNCHANGED <<registry, configs, nextPk, inst, hist, path, resolved, defcall>>

\* s = PluginSetting.objects.get(pk=id); s.plugin = p; s.key = k; s.save()
UpdateSetting(id, p, k) ==
    /\ id \in DOMAIN settings
    /\ LET r == SettingWrite(settings, configs, id, p, k)
       IN /\ settings' = r.settings
          /\ last' = [NoOp EXCEPT !.op = "setting_update", !.raised = r.raised,
                                  !.changed = r.settings # settings,
                                  !.arg = <<p, k, id>>]
    /\ UNCHANGED <<registry, configs, nextPk, nextId, inst, hist,
                   path, resolved, defcall>>

\* PluginSetting.objects.filter(pk=id).delete()
DeleteSetting(id) ==
    /\ id \in DOMAIN settings
    /\ settings' = [s \in DOMAIN settings \ {id} |-> settings[s]]
    /\ last' = [NoOp EXCEPT !.op = "setting_delete", !.arg = <<id>>]
    /\ UNCHANGED <<registry, configs, nextPk, nextId, inst, hist,
                   path, resolved, defcall>>

NextDb ==
    \/ \E k \in Keys, a \in BOOLEAN : CreateConfig(k, a)
    \/ \E pk \in 1..MaxPk, k \in Keys, a \in BOOLEAN : UpdateConfig(pk, k, a)
    \/ \E pk \in 1..MaxPk : DeleteConfig(pk)
    \/ \E p \in 0..MaxPk, k \in SettingKeys : InsertSetting(p, k)
    \/ \E id \in 1..MaxId, p \in 0..MaxPk, k \in SettingKeys :
          UpdateSetting(id, p, k)
    \/ \E id \in 1..MaxId : DeleteSetting(id)

SpecDb == Init /\ [][NextDb]_vars

----------------------------------------------------------------------------
(* part/urls.py: the route table and its resolution *)

IsDigit(c) == c \in {"0", "1", "2", "3", "4", "5", "6", "7", "8", "9"}

\* $ : the end of the string, or just before a newline that ends it
AtEnd(p, n) == n = Len(p) \/ (n = Len(p) - 1 /\ p[Len(p)] = "\n")

IsPrefix(lit, p) == Len(lit) <= Len(p) /\ SubSeq(p, 1, Len(lit)) = lit

Digits1(p, from, to) == to >= from /\ \A j \in from..to : IsDigit(p[j])

LitCategory == <<"c", "a", "t", "e", "g", "o", "r", "y", "/">>
LitParameters == <<"p", "a", "r", "a", "m", "e", "t", "e", "r", "s", "/">>
LitTemplates == <<"t", "e", "m", "p", "l", "a", "t", "e", "s", "/">>

NoMatch == -1

\* r'^(?P<pk>[0-9]+)/$'
RePk(p) ==
    IF \E n \in 1..Len(p) - 1 :
          Digits1(p, 1, n) /\ p[n + 1] = "/" /\ AtEnd(p, n + 1)
    THEN Len(p) ELSE NoMatch

\* r'^category/(?P<pk>[0-9]+)/$'
ReCategoryPk(p) ==
    IF /\ IsPrefix(LitCategory, p)
       /\ \E n \in Len(LitCategory) + 1..Len(p) - 1 :
             Digits1(p, Len(LitCategory) + 1, n) /\ p[n + 1] = "/" /\ AtEnd(p, n + 1)
    THEN Len(p) ELSE NoMatch

\* r'^$'
ReEmpty(p) == IF AtEnd(p, 0) THEN 0 ELSE NoMatch

\* r'^\?[^/]*/$'
ReQuery(p) ==
    IF \E n \in 1..Len(p) - 1 :
          /\ p[1] = "?"
          /\ \A j \in 2..n : p[j] # "/"
          /\ p[n + 1] = "/"
          /\ AtEnd(p, n + 1)
    THEN Len(p) ELSE NoMatch

\* r'^\?*[^/]*/?$'
ReList(p) ==
    IF \E q \in 0..Len(p) : \E n \in q..Len(p) :
          /\ \A j \in 1..q : p[j] = "?"
          /\ \A j \in q + 1..n : p[j] # "/"
          /\ \/ AtEnd(p, n)
             \/ (n < Len(p) /\ p[n + 1] = "/" /\ AtEnd(p, n + 1))
    THEN Len(p) ELSE NoMatch

\* a literal prefix: r'^category/', r'^parameters/', r'^templates/'
RePrefix(lit, p) == IF IsPrefix(lit, p) THEN Len(lit) ELSE NoMatch

\* regex.search(path): where the match ends, NoMatch if there is none
Search(re, p) ==
    CASE re = "^(?P<pk>[0-9]+)/$" -> RePk(p)
      [] re = "^category/(?P<pk>[0-9]+)/$" -> ReCategoryPk(p)
      [] re = "^$" -> ReEmpty(p)
      [] re = "^\\?[^/]*/$" -> ReQuery(p)
      [] re = "^\\?*[^/]*/?$" -> ReList(p)
      [] re = "^category/" -> RePrefix(LitCategory, p)
      [] re = "^parameters/" -> RePrefix(LitParameters, p)
      [] re = "^templates/" -> RePrefix(LitTemplates, p)

View(re, view) == [re |-> re, kind |-> "view", view |-> view, sub |-> <<>>]
Include(re, sub) == [re |-> re, kind |-> "include", view |-> "", sub |-> sub]

categorypatterns ==
    << View("^category/(?P<pk>[0-9]+)/$", "PartCategoryDetail"),
       View("^$", "PartCategoryList") >>

partparampatterns ==
    << View("^(?P<pk>[0-9]+)/$", "PartParamDetail"),
       View("^\\?[^/]*/$", "PartParamList"),
       View("^$", "PartParamList") >>

parttemplatepatterns ==
    << View("^(?P<pk>[0-9]+)/$", "PartTemplateDetail"),
       View("^$", "PartTemplateList") >>

urlpatterns ==
    << View("^(?P<pk>[0-9]+)/$", "PartDetail"),
       View("^category/", "PartCategoryList"),
       Include("^parameters/", partparampatterns),
       Include("^templates/", parttemplatepatterns),
       View("^\\?*[^/]*/?$", "PartList") >>

Resolver404 == "Resolver404"

\* the resolver: the first pattern, in declaration order, that matches; an
\* include resolves the rest of the path against its own patterns
RECURSIVE ResolveFrom(_, _, _)
ResolveFrom(pats, p, idx) ==
    IF idx > Len(pats) THEN Resolver404
    ELSE LET e == pats[idx]
             m == Search(e.re, p)
         IN IF m = NoMatch THEN ResolveFrom(pats, p, idx + 1)
            ELSE IF e.kind = "view" THEN e.view
            ELSE LET r == ResolveFrom(e.sub, SubSeq(p, m + 1, Len(p)), 1)
                 IN IF r # Resolver404 THEN r
                    ELSE ResolveFrom(pats, p, idx + 1)

resolve(p) == ResolveFrom(urlpatterns, p, 1)

Pieces == {LitCategory, LitParameters, LitTemplates, <<"5">>, <<"4", "2">>,
           <<"/">>, <<"?">>, <<"x">>, <<"\n">>}

RECURSIVE PathsOf(_)
PathsOf(n) ==
    IF n = 0 THEN {<<>>}
    ELSE LET shorter == PathsOf(n - 1)
         IN shorter \cup {q \o piece : q \in shorter, piece \in Pieces}

\* a request for some path arrives
InitUrls ==
    /\ registry \in Registries
    /\ configs = [q \in {} |-> Row([key |-> "k1", active |-> FALSE])]
    /\ nextPk = 1
    /\ settings = [s \in {} |-> [plugin |-> 1, key |-> "URL"]]
    /\ nextId = 1
    /\ inst = NoInst
    /\ hist = NoHist
    /\ last = NoOp
    /\ path \in PathsOf(MaxPieces)
    /\ resolved = "none"
    /\ DefIdle

\* the request is dispatched
Resolve ==
    /\ resolved = "none"
    /\ resolved' = resolve(path)
    /\ UNCHANGED <<registry, configs, nextPk, settings, nextId, inst, hist,
                   last, path, defcall>>

NextUrls == Resolve

SpecUrls == InitUrls /\ [][NextUrls]_vars

----------------------------------------------------------------------------
(* PluginSetting.get_setting_definition *)

Restrict(d, ks) == [k \in DOMAIN d \cap ks |-> d[k]]

With(d, k, v) == [x \in DOMAIN d \cup {k} |-> IF x = k THEN v ELSE d[x]]

\* plugin.plugin_config(): the PluginConfig of a plugin instance, by its slug
plugin_config(plugin, reg) ==
    PluginConfigInit(NoPk, plugin.attrs["slug"].v, FALSE, reg)

get_setting_definition_keep(key, kwargs, reg) ==
    IF "settings" \in DOMAIN kwargs
    THEN [key |-> key, kwargs |-> kwargs, consulted |-> FALSE]
    ELSE LET plugin == DictGet(kwargs, "plugin", PyNone)
         IN IF plugin # PyNone
            THEN LET cfg == IF plugin.t = "plugin"
                            THEN plugin_config(plugin, reg) ELSE plugin
                 IN [key |-> key,
                     kwargs |-> With(kwargs, "settings",
                                     DictGet(reg.mixins_settings, cfg.key, EmptyDict)),
                     consulted |-> TRUE]
            ELSE [key |-> key, kwargs |-> kwargs, consulted |-> FALSE]

\* get_setting_definition(cls, key, **kwargs): what reaches the base lookup
get_setting_definition(key, kwargs, reg) ==
    IF "settings" \in DOMAIN kwargs
    THEN [key |-> key, kwargs |-> kwargs, consulted |-> FALSE]
    ELSE LET plugin == DictGet(kwargs, "plugin", PyNone)
             rest == Restrict(kwargs, DOMAIN kwargs \ {"plugin"})
         IN IF plugin # PyNone
            THEN LET cfg == IF plugin.t = "plugin"
                            THEN plugin_config(plugin, reg) ELSE plugin
                 IN [key |-> key,
                     kwargs |-> With(rest, "settings",
                                     DictGet(reg.mixins_settings, cfg.key, EmptyDict)),
                     consulted |-> TRUE]
            ELSE [key |-> key, kwargs |-> rest, consulted |-> FALSE]

SettingsArgs == {PyNone, EmptyDict, SettingsA, SettingsB}

PluginArgs(reg) ==
    {PyNone}
    \cup {PluginConfigInit(1, k, TRUE, reg) : k \in Keys}
    \cup {FullPlugin(k) : k \in Keys}
    \cup {BarePlugin(k) : k \in Keys}

KwargsOver(names, reg) ==
    {kw \in [names -> SettingsArgs \cup PluginArgs(reg) \cup {PyStr("u")}] :
        /\ "settings" \in names => kw["settings"] \in SettingsArgs
        /\ "plugin" \in names => kw["plugin"] \in PluginArgs(reg)
        /\ "user" \in names => kw["user"] = PyStr("u")}

\* a caller is about to ask for the definition of some key
InitDef ==
    /\ registry \in Registries
    /\ configs = [q \in {} |-> Row([key |-> "k1", active |-> FALSE])]
    /\ nextPk = 1
    /\ settings = [s \in {} |-> [plugin |-> 1, key |-> "URL"]]
    /\ nextId = 1
    /\ inst = NoInst
    /\ hist = NoHist
    /\ last = NoOp
    /\ UrlIdle
    /\ \E key \in SettingKeys, names \in SUBSET {"settings", "plugin", "user"} :
          \E kwargs \in KwargsOver(names, registry) :
             defcall = [op |-> "pending", key |-> key, in |-> kwargs,
                        out |-> NoOp]

\* PluginSetting.get_setting_definition(key, **kwargs)
GetSettingDefinition ==
    /\ defcall.op = "pending"
    /\ defcall' = [defcall EXCEPT
                     !.op = "get_setting_definition",
                     !.out = get_setting_definition(defcall.key, defcall.in,
                                                    registry)]
    /\ UNCHANGED <<registry, configs, nextPk, settings, nextId, inst, hist,
                   last, path, resolved>>

NextDef == GetSettingDefinition

SpecDef == InitDef /\ [][NextDef]_vars

----------------------------------------------------------------------------
(* Properties *)

Reloads == Count(last.calls, "reload_plugins")

SavedOk == last.op = "save" /\ last.raised = "none"

\* C1: on an instance loaded with active = a, the first save() without
\* no_reload that goes through calls registry.reload_plugins() exactly once
\* when active then differs from a, and not at all when it equals a.
C1_FirstSaveReloadsIffFlipped ==
    (SavedOk /\ last.first /\ ~last.no_reload)
        => Reloads = (IF last.active # last.org THEN 1 ELSE 0)

C1_Witness ==
    /\ SavedOk /\ last.first /\ ~last.no_reload
    /\ last.org = FALSE /\ last.active = TRUE
    /\ Reloads = 1

\* C2: a save() without no_reload calls registry.reload_plugins() only if
\* active differs from the value the preceding save of the instance persisted.
C2_ReloadOnlyOnTransitionSincePreviousSave ==
    (last.op = "save" /\ ~last.no_reload /\ last.prev # {} /\ Reloads > 0)
        => last.active \notin last.prev

HeldByOther(db, i) == \E q \in DOMAIN db : q # i.pk /\ db[q].key = i.key

KeysUnique ==
    \A p, q \in DOMAIN configs : p # q => configs[p].key # configs[q].key

\* C3: no two stored PluginConfig rows ever share a key, and a save that would
\* give a row a key another stored row holds fails and leaves the rows as
\* they were.
C3_KeyUnique ==
    /\ []KeysUnique
    /\ [][(last'.op = "save" /\ inst # NoInst /\ HeldByOther(configs, inst))
             => (last'.raised # "none" /\ configs' = configs)]_vars

C3_Witness ==
    /\ last.op = "save" /\ last.raised = "IntegrityError" /\ ~last.changed
    /\ inst # NoInst /\ HeldByOther(configs, inst)
    /\ Cardinality(DOMAIN configs) >= 2

\* C5: constructing a PluginConfig whose key the registry does not hold sets
\* plugin to None and maps each of the ten metadata names to None.
C5_AbsentPluginMetaNone ==
    (last.op = "init" /\ inst.key \notin DOMAIN registry.plugins)
        => /\ inst.plugin = PyNone
           /\ DOMAIN inst.meta =
                 {"slug", "human_name", "description", "author", "pub_date",
                  "version", "website", "license", "package_path",
                  "settings_url"}
           /\ \A n \in DOMAIN inst.meta : inst.meta[n] = PyNone

C5_Witness ==
    /\ last.op = "init"
    /\ inst.key \notin DOMAIN registry.plugins
    /\ inst.meta["slug"] = PyNone

\* C6: mixins() returns an empty mapping when the plugin is None or has no
\* _mixinreg attribute, and the plugin's _mixinreg otherwise.
C6_MixinsDegrades ==
    last.op = "mixins"
        => last.ret = (IF inst.plugin = PyNone
                          \/ "_mixinreg" \notin DOMAIN inst.plugin.attrs
                       THEN EmptyDict
                       ELSE GetAttr(inst.plugin, "_mixinreg"))

C6_Witness ==
    /\ last.op = "mixins"
    /\ inst.plugin # PyNone
    /\ "_mixinreg" \notin DOMAIN inst.plugin.attrs
    /\ last.ret = EmptyDict

\* C10: save(no_reload=True) never calls registry.reload_plugins() and still
\* persists the record; in every save a reload call comes after the record
\* was persisted, so a save whose persistence raises makes no reload call.
C10_NoReloadFlagAndOrder ==
    last.op = "save"
        => /\ last.no_reload => Reloads = 0
           /\ last.raised = "none"
                 => /\ inst.pk \in DOMAIN configs
                    /\ configs[inst.pk] = Row(inst)
           /\ last.raised # "none" => Reloads = 0
           /\ \A n \in DOMAIN last.calls :
                 last.calls[n] = "reload_plugins"
                    => /\ last.raised = "none"
                       /\ \E m \in 1..n - 1 : last.calls[m] = "super.save"

C10_Witness ==
    /\ SavedOk /\ last.no_reload
    /\ inst.active # inst.org_active
    /\ Reloads = 0
    /\ configs[inst.pk].active = inst.active

PairsUnique ==
    \A s, t \in DOMAIN settings :
        s # t => ~(settings[s].plugin = settings[t].plugin
                   /\ settings[s].key = settings[t].key)

\* C4: no two stored PluginSetting rows ever share a (plugin, key) pair, and
\* an insert of a pair that is already stored fails; an insert for a stored
\* plugin of a pair that is not stored succeeds, so the same key may be
\* stored for two plugins.
C4_PairUnique ==
    /\ []PairsUnique
    /\ [][(/\ last'.op = "setting_insert"
           /\ \E s \in DOMAIN settings :
                 /\ settings[s].plugin = last'.arg[1]
                 /\ settings[s].key = last'.arg[2])
             => (last'.raised # "none" /\ settings' = settings)]_vars
    /\ [][(/\ last'.op = "setting_insert"
           /\ last'.arg[1] \in DOMAIN configs
           /\ ~\E s \in DOMAIN settings :
                  /\ settings[s].plugin = last'.arg[1]
                  /\ settings[s].key = last'.arg[2])
             => (last'.raised = "none" /\ settings' # settings)]_vars

C4_Witness ==
    /\ last.op = "setting_insert" /\ last.raised = "none"
    /\ \E s, t \in DOMAIN settings :
          /\ s # t
          /\ settings[s].key = settings[t].key
          /\ settings[s].plugin # settings[t].plugin

ReferencesStored ==
    \A s \in DOMAIN settings : settings[s].plugin \in DOMAIN configs

\* C9: every stored PluginSetting references a stored PluginConfig: a row
\* without a plugin is refused, and deleting a PluginConfig deletes exactly
\* the rows that reference it.
C9_ForeignKey ==
    /\ []ReferencesStored
    /\ [][(last'.op \in {"setting_insert", "setting_update"}
             /\ last'.arg[1] = NoPk)
             => (last'.raised # "none" /\ settings' = settings)]_vars
    /\ [][last'.op = "delete"
             => \A s \in DOMAIN settings :
                   IF settings[s].plugin = last'.arg[1]
                   THEN s \notin DOMAIN settings'
                   ELSE s \in DOMAIN settings' /\ settings'[s] = settings[s]]_vars

C9_Witness ==
    /\ last.op = "delete" /\ last.changed
    /\ settings # <<>>
    /\ ReferencesStored

KeyOf(plugin) ==
    IF plugin.t = "PluginConfig" THEN plugin.key ELSE plugin.attrs["slug"].v

Called == defcall.op = "get_setting_definition"

\* C8: get_setting_definition passes caller-supplied settings on unchanged
\* without consulting the registry; otherwise, given a plugin, it sets
\* settings to registry.mixins_settings for the plugin's key ({} if absent);
\* given neither it adds no settings; plugin is forwarded only together
\* with caller-supplied settings.
C8_SettingsResolution ==
    Called =>
        LET in == defcall.in
            out == defcall.out.kwargs
            given == "plugin" \in DOMAIN in /\ in["plugin"] # PyNone
        IN /\ "settings" \in DOMAIN in
                 => out = in /\ ~defcall.out.consulted
           /\ ("settings" \notin DOMAIN in /\ given)
                 => /\ "settings" \in DOMAIN out
                    /\ out["settings"] =
                          (IF KeyOf(in["plugin"]) \in DOMAIN registry.mixins_settings
                           THEN registry.mixins_settings[KeyOf(in["plugin"])]
                           ELSE EmptyDict)
           /\ ("settings" \notin DOMAIN in /\ ~given)
                 => "settings" \notin DOMAIN out
           /\ "plugin" \in DOMAIN out => "settings" \in DOMAIN in
           /\ \A k \in DOMAIN in \ {"plugin", "settings"} :
                 k \in DOMAIN out /\ out[k] = in[k]
           /\ defcall.out.key = defcall.key

C8_Witness ==
    /\ Called
    /\ "settings" \notin DOMAIN defcall.in
    /\ "plugin" \in DOMAIN defcall.in
    /\ defcall.in["plugin"] # PyNone
    /\ defcall.in["plugin"].t = "plugin"
    /\ KeyOf(defcall.in["plugin"]) \notin DOMAIN registry.mixins_settings
    /\ defcall.out.kwargs["settings"] = EmptyDict
    /\ "plugin" \notin DOMAIN defcall.out.kwargs

CategoryPkPath(p) ==
    /\ IsPrefix(LitCategory, p)
    /\ Len(p) >= Len(LitCategory) + 2
    /\ p[Len(p)] = "/"
    /\ \A j \in Len(LitCategory) + 1..Len(p) - 1 : IsDigit(p[j])

\* C7: category/<pk>/ dispatches to PartCategoryDetail and category/ to
\* PartCategoryList.
C7_CategoryDetailRouted ==
    resolved # "none"
        => /\ CategoryPkPath(path) => resolved = "PartCategoryDetail"
           /\ path = LitCategory => resolved = "PartCategoryList"

====
